---- MODULE Spec2Model ----
(***************************************************************************)
(* A model of one invocation of the tfe_client command line program        *)
(* (main.go): main's dispatch on command/subCommand, the Connection        *)
(* operation it calls, and every remote call that operation issues.  The   *)
(* remote service is the environment: a listing endpoint answers from the  *)
(* pages fixed in Init, every other call answers with a value or an error  *)
(* chosen when the call is made.  Each action is one remote call (or one   *)
(* stream read) together with the local code that follows it up to the     *)
(* next call.                                                              *)
(***************************************************************************)
EXTENDS Integers, Sequences, FiniteSets, TLC

\* ------------------------------------------------------------------ bounds
\* Page numbers of a listing are drawn from 1..MaxPages.
MaxPages == 3
\* Total number of items of a listing, over all its pages.
MaxItems == 3
\* Number of Read calls on a log stream the model follows.
MaxReads == 3

\* ---------------------------------------------------------------- values
\* A nil pointer / nil interface value.
Nil == [nil |-> TRUE]
\* The nil error.
ErrNil == Nil
\* The error a remote call of the given API returns when the service or the
\* transport fails it (authorization, validation, not found, network...).
ErrRemote(api) == [error |-> "remote", api |-> api]
\* errors.New("Not found") of GetVarialbeSetByName.
ErrNotFound == [error |-> "Not found"]
\* io.EOF
EOF == [error |-> "EOF"]
\* What a remote call may answer with: success or its error.
Answers(api) == {ErrNil, ErrRemote(api)}

\* -workspace_name, -variable_set and -plan_id as given on the command line.
WorkspaceNames == {"infra-prod", "infra-dev"}
VariableSetNames == {"common", "Common"}
RunIDs == {"run-1", "run-2"}
\* Status values of runs in a listing.
RunStatuses == {"applied", "planned"}
\* Names of OAuth clients in a listing: Name is a *string, nil when the
\* client was registered without a name.
OAuthClientNames == {[val |-> "github"], Nil}

\* What distinguishes two items of one endpoint's listing.
ItemKeys(endpoint) ==
  CASE endpoint = "Workspaces" -> {"infra-prod", "infra-dev"}
    [] endpoint = "Runs" -> RunStatuses
    [] endpoint = "OAuthClients" -> OAuthClientNames
    [] endpoint = "VariableSets" -> VariableSetNames

\* The item at index i of page p: its ID is its place in the listing, so no
\* two items of a listing are equal.
Item(endpoint, p, i, k) ==
  CASE endpoint = "Runs" ->
         [ID |-> <<"run", p, i>>, Status |-> k, CreatedAt |-> <<"t", p, i>>]
    [] OTHER -> [ID |-> <<endpoint, p, i>>, Name |-> k]

\* All sequences over S of length at most n.
SeqsUpTo(S, n) == UNION {[1..m -> S] : m \in 0..n}

\* The ways to put at most budget keys on n pages, page by page.
RECURSIVE Distribute(_, _, _)
Distribute(S, n, budget) ==
  IF n = 0 THEN {<<>>}
  ELSE UNION {{<<s>> \o rest : rest \in Distribute(S, n - 1, budget - Len(s))}
              : s \in SeqsUpTo(S, budget)}

\* The increasing sequence of the numbers of a set.
RECURSIVE SortedSeq(_)
SortedSeq(S) ==
  IF S = {} THEN <<>>
  ELSE LET m == CHOOSE x \in S : \A y \in S : x <= y
       IN <<m>> \o SortedSeq(S \ {m})

\* The page numbers of a listing in link order: page 1 first, each next page
\* a later number, the last page naming 0.
Chains == {SortedSeq({1} \cup c) : c \in SUBSET (2..MaxPages)}

\* A listing of an endpoint: page number -> [Items, NextPage].  A page that
\* is not on the chain is empty and names no next page, which is also what
\* the service answers for a page number past the end.
ListingOf(endpoint, chain, keys) ==
  [p \in 1..MaxPages |->
     IF \E j \in 1..Len(chain) : chain[j] = p
     THEN LET j == CHOOSE j \in 1..Len(chain) : chain[j] = p
          IN [Items |-> [i \in 1..Len(keys[j]) |-> Item(endpoint, p, i, keys[j][i])],
              NextPage |-> IF j < Len(chain) THEN chain[j + 1] ELSE 0]
     ELSE [Items |-> <<>>, NextPage |-> 0]]

Listings(endpoint) ==
  UNION {{ListingOf(endpoint, chain, keys)
          : keys \in Distribute(ItemKeys(endpoint), Len(chain), MaxItems)}
         : chain \in Chains}

EmptyListing == [p \in 1..MaxPages |-> [Items |-> <<>>, NextPage |-> 0]]

\* The answer of a listing endpoint to a request for page p.
PageOf(listing, p) ==
  IF p \in DOMAIN listing THEN listing[p] ELSE [Items |-> <<>>, NextPage |-> 0]

\* ----------------------------------------------------------------- state
VARIABLES
  command,      \* os.Args[1], or "direct" for a call of a Connection method
  subCommand,   \* os.Args[2], or the method called
  flags,        \* the parsed flags the command reads
  listing,      \* the remote listing the invocation pages through
  pc,           \* the next step of the invocation
  calls,        \* the remote calls issued so far, each with its answer
  PageNumber,   \* options.ListOptions.PageNumber
  workspaces,   \* ListWorkspaces' accumulator
  runs,         \* ListRuns' accumulator
  clients,      \* ListOAuthClients' accumulator
  w,            \* the workspace a ReadWorkspace returned
  r,            \* the run a Runs.Read / Runs.Create returned
  vs,           \* the variable set GetVarialbeSetByName returned
  vcsRepo,      \* the options GetVCSProviderFromOAuthClient returned
  err,          \* the error the last call or lookup returned
  logs,         \* GetLogs' io.Reader
  buffer,       \* ParseLogs' read buffer
  l,            \* ParseLogs' accumulated text
  reads,        \* the Read calls made on the stream: [n, bytes, err]
  ret,          \* the payload the Connection method returned
  stdout,       \* what main printed with fmt
  logged,       \* what main printed with log.Printf
  exit,         \* how the process ended
  fatal         \* the error log.Fatal printed

inVars == <<command, subCommand, flags, listing>>
listVars == <<PageNumber, workspaces, runs, clients>>
refVars == <<w, r, vs, vcsRepo>>
logVars == <<logs, buffer, l, reads>>
outVars == <<ret, stdout, logged, exit, fatal>>
vars == <<inVars, pc, calls, listVars, refVars, err, logVars, outVars>>

\* make([]byte, 1000): the size of ParseLogs' read buffer.
BufSize == 1000

\* The numbers of bytes one Read of a log stream may deliver.
ChunkSizes == {0, 237, BufSize}

\* The byte at offset i (from 1) of a run's plan log and of its apply log
\* (ASCII text, which json.Marshal encodes without loss).
StreamByte(stream, i) ==
  IF stream = "Plans.Logs" THEN i % 127 ELSE (i + 50) % 113

\* What a Read may return as its error: nil, io.EOF, or a failure.
ErrRead == [error |-> "read"]
ReadErrors == {ErrNil, EOF, ErrRead}

\* ------------------------------------------------------------ main's table
\* The cases of main's switch on command and subCommand: the Connection
\* method each one calls first and the listing endpoint it pages through.
MainCases ==
  { [command |-> "workspace", subCommand |-> "list", entry |-> "ListWorkspaces", endpoint |-> "Workspaces"],
    [command |-> "workspace", subCommand |-> "create", entry |-> "CreateWorkspace", endpoint |-> ""],
    [command |-> "workspace", subCommand |-> "get", entry |-> "GetWorkspace", endpoint |-> ""],
    [command |-> "workspace", subCommand |-> "add_repo", entry |-> "GetVCSProviderFromOAuthClient", endpoint |-> ""],
    [command |-> "workspace", subCommand |-> "add_tfe_var", entry |-> "addTerraformVariable", endpoint |-> ""],
    [command |-> "workspace", subCommand |-> "add_env_var", entry |-> "addTerraformVariable", endpoint |-> ""],
    [command |-> "workspace", subCommand |-> "plan", entry |-> "RunPlan", endpoint |-> ""],
    [command |-> "workspace", subCommand |-> "assign_variable_set", entry |-> "AssignVariableSet", endpoint |-> "VariableSets"],
    [command |-> "oauth_client", subCommand |-> "list", entry |-> "ListOAuthClients", endpoint |-> "OAuthClients"],
    [command |-> "run", subCommand |-> "discard", entry |-> "DiscardRun", endpoint |-> ""],
    [command |-> "run", subCommand |-> "cancel", entry |-> "CancelRun", endpoint |-> ""],
    [command |-> "run", subCommand |-> "get", entry |-> "GetPlan", endpoint |-> ""],
    [command |-> "run", subCommand |-> "apply_status", entry |-> "GetApply", endpoint |-> ""],
    [command |-> "run", subCommand |-> "apply_logs", entry |-> "GetLogs", endpoint |-> ""],
    [command |-> "run", subCommand |-> "plan_logs", entry |-> "GetLogs", endpoint |-> ""],
    [command |-> "run", subCommand |-> "apply", entry |-> "ApplyRun", endpoint |-> ""],
    [command |-> "run", subCommand |-> "list", entry |-> "ListRuns", endpoint |-> "Runs"],
    [command |-> "run", subCommand |-> "list_runs", entry |-> "Usage", endpoint |-> ""] }

\* Calls of a Connection method that main never makes: GetLogs with any
\* operation tag, and ReadVariableSet on its own.
DirectCalls ==
  { [command |-> "direct", subCommand |-> "GetLogs", entry |-> "GetLogs", endpoint |-> ""],
    [command |-> "direct", subCommand |-> "ReadVariableSet", entry |-> "ReadVariableSet", endpoint |-> "VariableSets"] }

\* The tags a caller may pass to GetLogs as its LogOperation.
LogOperations == {"plan", "apply", "destroy"}

\* The constants of type LogOperation; the second repeats the first's value.
\* No code of the program reads them.
plan == "plan"
apply == "plan"

\* main passing the constants of type LogOperation instead of its literals.
MainLogOperationConst(sub) == IF sub = "apply_logs" THEN apply ELSE plan

\* The literal main passes to GetLogs for apply_logs and for plan_logs.
MainLogOperation(sub) == IF sub = "apply_logs" THEN "apply" ELSE "plan"

\* The methods main hands -workspace_name to.
ReadsWorkspaceName ==
  {"CreateWorkspace", "GetWorkspace", "GetVCSProviderFromOAuthClient",
   "addTerraformVariable", "RunPlan", "AssignVariableSet", "ListRuns"}

\* The flag values an invocation may carry; a flag the case does not read
\* keeps one value.
FlagsOf(c) ==
  [ workspaceName : IF c.entry \in ReadsWorkspaceName THEN WorkspaceNames ELSE {"infra-prod"},
    variableSet : IF c.endpoint = "VariableSets" THEN VariableSetNames ELSE {"common"},
    planID : IF c.command \in {"run", "direct"} /\ c.endpoint = "" THEN RunIDs ELSE {"run-1"},
    isHCL : IF c.entry = "addTerraformVariable" THEN BOOLEAN ELSE {FALSE},
    operation : IF c.command = "direct" /\ c.entry = "GetLogs" THEN LogOperations
                ELSE {MainLogOperation(c.subCommand)} ]

\* ListOptions{PageNumber: 1}: the page every listing loop asks for first.
StartPage == 1

\* The methods that build their list options before their first remote call.
ListsAtEntry == {"ListWorkspaces", "ListOAuthClients", "ReadVariableSet"}

Init ==
  \E c \in MainCases \cup DirectCalls :
    /\ command = c.command
    /\ subCommand = c.subCommand
    /\ flags \in FlagsOf(c)
    /\ listing \in (IF c.endpoint = "" THEN {EmptyListing} ELSE Listings(c.endpoint))
    /\ pc = c.entry
    /\ calls = <<>>
    /\ PageNumber = IF c.entry \in ListsAtEntry THEN StartPage ELSE 0
    /\ workspaces = <<>> /\ runs = <<>> /\ clients = <<>>
    /\ w = Nil /\ r = Nil /\ vs = Nil /\ vcsRepo = Nil
    /\ err = ErrNil
    /\ logs = Nil /\ buffer = <<>> /\ l = <<>> /\ reads = <<>>
    /\ ret = Nil /\ stdout = <<>> /\ logged = <<>>
    /\ exit = "running" /\ fatal = ErrNil

\* ------------------------------------------------------------- outcomes
\* log.Fatal(e): print e and exit with status 1.
Fatal(e) ==
  /\ pc' = "done" /\ exit' = "fatal" /\ fatal' = e
  /\ UNCHANGED <<ret, stdout, logged>>

\* A run-time panic (nil dereference, index out of range): the process dies.
Panic ==
  /\ pc' = "done" /\ exit' = "panic"
  /\ UNCHANGED <<ret, stdout, logged, fatal>>

\* The method returned payload, main printed out and logged lg, and main
\* returned.
Exit0(payload, out, lg) ==
  /\ pc' = "done" /\ exit' = "ok"
  /\ ret' = payload /\ stdout' = out /\ logged' = lg
  /\ UNCHANGED fatal

\* The invocation goes on at step next.
Goto(next) == pc' = next /\ UNCHANGED outVars

\* The record of a remote call and its answer.
Call(api, arg, e) == calls' = Append(calls, [api |-> api, arg |-> arg, err |-> e])

\* json.Marshal of a slice: a nil slice (nothing was ever appended) encodes
\* as null, any other as an array.
MarshalSlice(s) ==
  IF s = <<>> THEN [json |-> "null"] ELSE [json |-> "array", elems |-> s]

\* json.Marshal of a struct or map, or of a nil pointer (null).
MarshalValue(v) ==
  IF v = Nil THEN [json |-> "null"] ELSE [json |-> "object", fields |-> v]

\* ---------------------------------------------------------------- Pager
\* options.ListOptions.PageNumber = <list>.NextPage
NextRequest(cur, page) == page.NextPage

\* ListWorkspaces' projection of a page: w.Name of every item.
WorkspaceNamesOf(items) == [i \in 1..Len(items) |-> items[i].Name]

\* One round of ListWorkspaces' loop; main prints each name on return.
ListWorkspaces ==
  /\ pc = "ListWorkspaces"
  /\ \E e \in Answers("Workspaces.List") :
       LET ws == PageOf(listing, PageNumber) IN
       /\ Call("Workspaces.List", PageNumber, e)
       /\ err' = e
       /\ IF e # ErrNil
          THEN Fatal(e) /\ UNCHANGED <<PageNumber, workspaces>>
          ELSE /\ workspaces' = workspaces \o WorkspaceNamesOf(ws.Items)
               /\ PageNumber' = NextRequest(PageNumber, ws)
               /\ IF PageNumber' = 0
                  THEN Exit0(workspaces', workspaces', <<>>)
                  ELSE Goto("ListWorkspaces")
  /\ UNCHANGED <<inVars, runs, clients, refVars, logVars>>

\* ListOAuthClients' projection of an item: {Name: *t.Name, Id: t.ID}.
ClientOf(t) == [Name |-> t.Name.val, Id |-> t.ID]

\* One round of ListOAuthClients' loop; *t.Name panics on a nil Name.
ListOAuthClients ==
  /\ pc = "ListOAuthClients"
  /\ \E e \in Answers("OAuthClients.List") :
       LET ts == PageOf(listing, PageNumber) IN
       /\ Call("OAuthClients.List", PageNumber, e)
       /\ err' = e
       /\ IF e # ErrNil
          THEN Fatal(e) /\ UNCHANGED <<PageNumber, clients>>
          ELSE IF \E i \in 1..Len(ts.Items) : ts.Items[i].Name = Nil
          THEN Panic /\ UNCHANGED <<PageNumber, clients>>
          ELSE /\ clients' = clients \o [i \in 1..Len(ts.Items) |-> ClientOf(ts.Items[i])]
               /\ PageNumber' = NextRequest(PageNumber, ts)
               /\ IF PageNumber' = 0
                  THEN Exit0(MarshalSlice(clients'), <<MarshalSlice(clients')>>, <<>>)
                  ELSE Goto("ListOAuthClients")
  /\ UNCHANGED <<inVars, workspaces, runs, refVars, logVars>>

\* c.Client.Workspaces.Read(ctx, c.Org, name): the workspace, or nil and
\* the error.
WorkspaceOf(name) == [ID |-> <<"ws", name>>, Name |-> name]

ReadWorkspace(name, e) == IF e = ErrNil THEN WorkspaceOf(name) ELSE Nil

\* ListRuns up to its loop: resolve the workspace, build the list options.
ListRuns ==
  /\ pc = "ListRuns"
  /\ \E e \in Answers("Workspaces.Read") :
       /\ Call("Workspaces.Read", flags.workspaceName, e)
       /\ err' = e
       /\ w' = ReadWorkspace(flags.workspaceName, e)
       /\ IF e # ErrNil
          THEN Fatal(e) /\ UNCHANGED PageNumber
          ELSE Goto("ListRunsPage") /\ PageNumber' = StartPage
  /\ UNCHANGED <<inVars, workspaces, runs, clients, r, vs, vcsRepo, logVars>>

\* ListRuns' projection of an item: {ID, Status, CreatedAt}.
RunOf(x) == [ID |-> x.ID, Status |-> x.Status, CreatedAt |-> x.CreatedAt]

\* One round of ListRuns' loop.
ListRunsPage ==
  /\ pc = "ListRunsPage"
  /\ \E e \in Answers("Runs.List") :
       LET rs == PageOf(listing, PageNumber) IN
       /\ Call("Runs.List", [workspaceID |-> w.ID, page |-> PageNumber], e)
       /\ err' = e
       /\ IF e # ErrNil
          THEN Fatal(e) /\ UNCHANGED <<PageNumber, runs>>
          ELSE /\ runs' = runs \o [i \in 1..Len(rs.Items) |-> RunOf(rs.Items[i])]
               /\ PageNumber' = NextRequest(PageNumber, rs)
               /\ IF PageNumber' = 0
                  THEN Exit0(MarshalSlice(runs'), <<MarshalSlice(runs')>>, <<>>)
                  ELSE Goto("ListRunsPage")
  /\ UNCHANGED <<inVars, workspaces, clients, refVars, logVars>>

\* ------------------------------------------------------- variable sets
\* The name of a variable set with its capitals folded.
Fold(name) == IF name = "Common" THEN "common" ELSE name

\* A comparison that ignores case (strings.EqualFold).
NameMatchesFold(itemName, name) == Fold(itemName) = Fold(name)

\* r.Name == name
NameMatches(itemName, name) == itemName = name

\* The index of the first item of a page whose name matches, or 0.
FirstMatch(items, name) ==
  IF \E i \in 1..Len(items) : NameMatches(items[i].Name, name)
  THEN CHOOSE i \in 1..Len(items) :
         /\ NameMatches(items[i].Name, name)
         /\ \A j \in 1..(i - 1) : ~NameMatches(items[j].Name, name)
  ELSE 0

\* One round of GetVarialbeSetByName's loop on the page the service
\* answered: the values it returns (returned), or the page it asks for next.
GetVarialbeSetByName(vss, name, cur) ==
  LET m == FirstMatch(vss.Items, name) IN
  IF m # 0
  THEN [returned |-> TRUE, vs |-> vss.Items[m], err |-> ErrNil, PageNumber |-> cur]
  ELSE IF NextRequest(cur, vss) = 0
  THEN [returned |-> TRUE, vs |-> Nil, err |-> ErrNotFound, PageNumber |-> 0]
  ELSE [returned |-> FALSE, vs |-> Nil, err |-> ErrNil, PageNumber |-> NextRequest(cur, vss)]

\* A round of the scan made for the caller at pc; after it has returned the
\* caller goes on at step after.
ScanStep(after) ==
  \E e \in Answers("VariableSets.List") :
    LET rnd == GetVarialbeSetByName(PageOf(listing, PageNumber), flags.variableSet, PageNumber) IN
    /\ Call("VariableSets.List", PageNumber, e)
    /\ err' = (IF e # ErrNil THEN e ELSE rnd.err)
    /\ IF e # ErrNil
       THEN Fatal(e) /\ UNCHANGED <<PageNumber, vs>>
       ELSE /\ PageNumber' = rnd.PageNumber
            /\ vs' = rnd.vs
            /\ Goto(IF rnd.returned THEN after ELSE pc)

\* AssignVariableSet up to the scan: resolve the workspace.
AssignVariableSet ==
  /\ pc = "AssignVariableSet"
  /\ \E e \in Answers("Workspaces.Read") :
       /\ Call("Workspaces.Read", flags.workspaceName, e)
       /\ err' = e
       /\ w' = ReadWorkspace(flags.workspaceName, e)
       /\ IF e # ErrNil
          THEN Fatal(e) /\ UNCHANGED PageNumber
          ELSE Goto("AssignVariableSetScan") /\ PageNumber' = StartPage
  /\ UNCHANGED <<inVars, workspaces, runs, clients, r, vs, vcsRepo, logVars>>

\* The scan AssignVariableSet calls.
AssignVariableSetScan ==
  /\ pc = "AssignVariableSetScan"
  /\ ScanStep("AssignVariableSetApply")
  /\ UNCHANGED <<inVars, workspaces, runs, clients, w, r, vcsRepo, logVars>>

\* An association request whose workspace slot was never filled in.
ApplyToWorkspacesRequestUnset(set, ws) == [variableSetID |-> set.ID, Workspaces |-> <<Nil>>]

\* The options of the association request: the found set and the workspace.
ApplyToWorkspacesRequest(set, ws) == [variableSetID |-> set.ID, Workspaces |-> <<ws>>]

\* AssignVariableSet after the scan: return its error, or request the
\* association; when that returns nil main goes on to ReadVariableSet.
AssignVariableSetApply ==
  /\ pc = "AssignVariableSetApply"
  /\ IF err # ErrNil
     THEN Fatal(err) /\ UNCHANGED <<calls, err, PageNumber>>
     ELSE \E e \in Answers("VariableSets.ApplyToWorkspaces") :
            /\ Call("VariableSets.ApplyToWorkspaces", ApplyToWorkspacesRequest(vs, w), e)
            /\ err' = e
            /\ IF e # ErrNil
               THEN Fatal(e) /\ UNCHANGED PageNumber
               ELSE Goto("ReadVariableSet") /\ PageNumber' = StartPage
  /\ UNCHANGED <<inVars, workspaces, runs, clients, refVars, logVars>>

\* The scan ReadVariableSet calls.
ReadVariableSet ==
  /\ pc = "ReadVariableSet"
  /\ ScanStep("ReadVariableSetMarshal")
  /\ UNCHANGED <<inVars, workspaces, runs, clients, w, r, vcsRepo, logVars>>

\* ReadVariableSet after the scan: js, err := json.Marshal(vs) replaces the
\* scan's error; the payload is returned, and printed when main called.
ReadVariableSetMarshal ==
  /\ pc = "ReadVariableSetMarshal"
  /\ err' = ErrNil
  /\ Exit0(MarshalValue(vs),
           IF command = "direct" THEN <<>> ELSE <<MarshalValue(vs)>>, <<>>)
  /\ UNCHANGED <<inVars, calls, listVars, refVars, logVars>>

\* ------------------------------------------------------------ workspaces
\* CreateWorkspace: one creation request; the new workspace is printed.
CreateWorkspace ==
  /\ pc = "CreateWorkspace"
  /\ \E e \in Answers("Workspaces.Create") :
       /\ Call("Workspaces.Create", [Name |-> flags.workspaceName, AutoApply |-> FALSE], e)
       /\ err' = e
       /\ w' = ReadWorkspace(flags.workspaceName, e)
       /\ IF e # ErrNil THEN Fatal(e) ELSE Exit0(Nil, <<w'>>, <<>>)
  /\ UNCHANGED <<inVars, listVars, r, vs, vcsRepo, logVars>>

\* The VCS binding a workspace may carry: none, or a branch and repository.
VCSRepos == {Nil, [Branch |-> "main", Identifier |-> "org/repo"]}

\* GetWorkspace's map of the workspace read.
WorkspaceMap(ws, repo) ==
  [Name |-> ws.Name,
   Branch |-> IF repo # Nil THEN repo.Branch ELSE "",
   RepoID |-> IF repo # Nil THEN repo.Identifier ELSE ""]

\* GetWorkspace: read the workspace and serialize its summary.
GetWorkspace ==
  /\ pc = "GetWorkspace"
  /\ \E e \in Answers("Workspaces.Read"), repo \in VCSRepos :
       /\ Call("Workspaces.Read", flags.workspaceName, e)
       /\ err' = e
       /\ w' = ReadWorkspace(flags.workspaceName, e)
       /\ IF e # ErrNil
          THEN Fatal(e)
          ELSE Exit0(MarshalValue(WorkspaceMap(w', repo)),
                     <<MarshalValue(WorkspaceMap(w', repo))>>, <<>>)
  /\ UNCHANGED <<inVars, listVars, r, vs, vcsRepo, logVars>>

\* The OAuth tokens an OAuth client may hold.
OAuthTokenLists == {<<>>, <<[ID |-> "ot-1"]>>}

\* add_repo, first half: GetVCSProviderFromOAuthClient reads the client and
\* takes OAuthTokens[0]; main ends on its error.
GetVCSProviderFromOAuthClient ==
  /\ pc = "GetVCSProviderFromOAuthClient"
  /\ \E e \in Answers("OAuthClients.Read"), tokens \in OAuthTokenLists :
       /\ Call("OAuthClients.Read", "oauth_client_id", e)
       /\ err' = e
       /\ IF e # ErrNil
          THEN Fatal(e) /\ UNCHANGED vcsRepo
          ELSE IF tokens = <<>>
          THEN Panic /\ UNCHANGED vcsRepo
          ELSE /\ vcsRepo' = [Branch |-> "main", Identifier |-> "org/repo",
                              OAuthTokenID |-> tokens[1].ID]
               /\ Goto("UpdateWorkspace")
  /\ UNCHANGED <<inVars, listVars, w, r, vs, logVars>>

\* add_repo, second half: UpdateWorkspace resolves the workspace.
UpdateWorkspace ==
  /\ pc = "UpdateWorkspace"
  /\ \E e \in Answers("Workspaces.Read") :
       /\ Call("Workspaces.Read", flags.workspaceName, e)
       /\ err' = e
       /\ w' = ReadWorkspace(flags.workspaceName, e)
       /\ IF e # ErrNil THEN Fatal(e) ELSE Goto("UpdateWorkspaceUpdate")
  /\ UNCHANGED <<inVars, listVars, r, vs, vcsRepo, logVars>>

\* UpdateWorkspace's update request; main ends on its error.
UpdateWorkspaceUpdate ==
  /\ pc = "UpdateWorkspaceUpdate"
  /\ \E e \in Answers("Workspaces.Update") :
       /\ Call("Workspaces.Update", [workspace |-> w.Name, VCSRepo |-> vcsRepo], e)
       /\ err' = e
       /\ IF e # ErrNil THEN Fatal(e) ELSE Exit0(Nil, <<>>, <<>>)
  /\ UNCHANGED <<inVars, listVars, refVars, logVars>>

\* ------------------------------------------------------------- variables
\* AddTerraformVariable: the caller's hcl flag, category terraform.
AddTerraformVariable(hcl) == [HCL |-> hcl, Category |-> "terraform"]

\* An environment variable created with the caller's is_hcl flag.
AddEnvironmentVariableHCL == [HCL |-> flags.isHCL, Category |-> "env"]

\* AddEnvironmentVariable: hcl := false, category env.
AddEnvironmentVariable == [HCL |-> FALSE, Category |-> "env"]

\* The creation options main's case hands to addTerraformVariable.
VariableCreateOptions ==
  IF subCommand = "add_tfe_var" THEN AddTerraformVariable(flags.isHCL)
  ELSE AddEnvironmentVariable

\* addTerraformVariable up to the creation request: w, err := ReadWorkspace;
\* err is not looked at, and w.ID panics on the nil w of a failed read.
addTerraformVariable ==
  /\ pc = "addTerraformVariable"
  /\ \E e \in Answers("Workspaces.Read") :
       /\ Call("Workspaces.Read", flags.workspaceName, e)
       /\ err' = e
       /\ w' = ReadWorkspace(flags.workspaceName, e)
       /\ IF w' = Nil THEN Panic ELSE Goto("addTerraformVariableCreate")
  /\ UNCHANGED <<inVars, listVars, r, vs, vcsRepo, logVars>>

\* addTerraformVariable's creation request; main ends on its error.
addTerraformVariableCreate ==
  /\ pc = "addTerraformVariableCreate"
  /\ \E e \in Answers("Variables.Create") :
       /\ Call("Variables.Create", [workspaceID |-> w.ID, options |-> VariableCreateOptions], e)
       /\ err' = e
       /\ IF e # ErrNil THEN Fatal(e) ELSE Exit0(Nil, <<>>, <<>>)
  /\ UNCHANGED <<inVars, listVars, refVars, logVars>>

\* ------------------------------------------------------------------ runs
\* A run as Runs.Read / Runs.Create returns it: nil with an error.  A run
\* the service returns always carries its plan and its apply relation.
RunOfID(id, e) ==
  IF e = ErrNil
  THEN [ID |-> id, Plan |-> [ID |-> <<"plan", id>>], Apply |-> [ID |-> <<"apply", id>>]]
  ELSE Nil

\* RunPlan up to the creation request: resolve the workspace.
RunPlan ==
  /\ pc = "RunPlan"
  /\ \E e \in Answers("Workspaces.Read") :
       /\ Call("Workspaces.Read", flags.workspaceName, e)
       /\ err' = e
       /\ w' = ReadWorkspace(flags.workspaceName, e)
       /\ IF e # ErrNil THEN Fatal(e) ELSE Goto("RunPlanCreate")
  /\ UNCHANGED <<inVars, listVars, r, vs, vcsRepo, logVars>>

\* RunPlan's creation request: return r.ID, err evaluates r.ID whatever err
\* is, and r is nil when the request failed.
RunPlanCreate ==
  /\ pc = "RunPlanCreate"
  /\ \E e \in Answers("Runs.Create") :
       /\ Call("Runs.Create", [Workspace |-> w], e)
       /\ err' = e
       /\ r' = RunOfID("run-new", e)
       /\ IF r' = Nil
          THEN Panic
          ELSE IF e # ErrNil
          THEN Fatal(e)
          ELSE Exit0(r'.ID, <<[RunID |-> r'.ID, Status |-> "planning"]>>, <<>>)
  /\ UNCHANGED <<inVars, listVars, w, vs, vcsRepo, logVars>>

\* A transition that drops the error of its request.
TransitionResultDropped(e) == ErrNil

\* What DiscardRun, CancelRun and ApplyRun return for the answer of their
\* one request: if err != nil { return err }; return nil.
TransitionResult(e) == IF e # ErrNil THEN e ELSE ErrNil

\* main's handling of a transition's result: log.Fatal on an error, the
\* confirmation line otherwise.
TransitionDone(result, word) ==
  IF result # ErrNil
  THEN Fatal(result)
  ELSE Exit0(Nil, <<>>, <<[run |-> flags.planID, msg |-> word]>>)

DiscardRun ==
  /\ pc = "DiscardRun"
  /\ \E e \in Answers("Runs.Discard") :
       /\ Call("Runs.Discard", flags.planID, e)
       /\ err' = TransitionResult(e)
       /\ TransitionDone(err', "discarded")
  /\ UNCHANGED <<inVars, listVars, refVars, logVars>>

CancelRun ==
  /\ pc = "CancelRun"
  /\ \E e \in Answers("Runs.Cancel") :
       /\ Call("Runs.Cancel", flags.planID, e)
       /\ err' = TransitionResult(e)
       /\ TransitionDone(err', "cancelled")
  /\ UNCHANGED <<inVars, listVars, refVars, logVars>>

ApplyRun ==
  /\ pc = "ApplyRun"
  /\ \E e \in Answers("Runs.Apply") :
       /\ Call("Runs.Apply", flags.planID, e)
       /\ err' = TransitionResult(e)
       /\ TransitionDone(err', "applied")
  /\ UNCHANGED <<inVars, listVars, refVars, logVars>>

\* GetPlan, GetApply and GetLogs all resolve the run first.
ReadRun(next) ==
  \E e \in Answers("Runs.Read") :
    /\ Call("Runs.Read", flags.planID, e)
    /\ err' = e
    /\ r' = RunOfID(flags.planID, e)
    /\ IF e # ErrNil THEN Fatal(e) ELSE Goto(next)

GetPlan ==
  /\ pc = "GetPlan"
  /\ ReadRun("GetPlanOutput")
  /\ UNCHANGED <<inVars, listVars, w, vs, vcsRepo, logVars>>

\* GetPlan's second call: the plan's JSON output, returned as it came.
GetPlanOutput ==
  /\ pc = "GetPlanOutput"
  /\ \E e \in Answers("Plans.ReadJSONOutput") :
       /\ Call("Plans.ReadJSONOutput", r.Plan.ID, e)
       /\ err' = e
       /\ IF e # ErrNil
          THEN Fatal(e)
          ELSE Exit0([json |-> "raw", of |-> r.Plan.ID],
                     <<[json |-> "raw", of |-> r.Plan.ID]>>, <<>>)
  /\ UNCHANGED <<inVars, listVars, refVars, logVars>>

GetApply ==
  /\ pc = "GetApply"
  /\ ReadRun("GetApplyRead")
  /\ UNCHANGED <<inVars, listVars, w, vs, vcsRepo, logVars>>

\* GetApply's second call: the apply record, serialized.
GetApplyRead ==
  /\ pc = "GetApplyRead"
  /\ \E e \in Answers("Applies.Read") :
       /\ Call("Applies.Read", r.Apply.ID, e)
       /\ err' = e
       /\ IF e # ErrNil
          THEN Fatal(e)
          ELSE Exit0(MarshalValue([ID |-> r.Apply.ID]),
                     <<MarshalValue([ID |-> r.Apply.ID])>>, <<>>)
  /\ UNCHANGED <<inVars, listVars, refVars, logVars>>

\* ------------------------------------------------------------------ logs
\* if operation == "plan"
IsPlan(operation) == operation = "plan"

\* if operation == "apply"
IsApply(operation) == operation = "apply"

\* The tag GetLogs is called with.
Operation ==
  IF command = "direct" THEN flags.operation ELSE MainLogOperation(subCommand)

\* A reader on a log stream of a plan or apply.
Reader(api, id) == [stream |-> api, id |-> id]

GetLogs ==
  /\ pc = "GetLogs"
  /\ ReadRun("GetLogsPlan")
  /\ UNCHANGED <<inVars, listVars, w, vs, vcsRepo, logVars>>

\* GetLogs' first if: open the plan's log stream for the plan tag.
GetLogsPlan ==
  /\ pc = "GetLogsPlan"
  /\ IF IsPlan(Operation)
     THEN \E e \in Answers("Plans.Logs") :
            /\ Call("Plans.Logs", r.Plan.ID, e)
            /\ err' = e
            /\ IF e # ErrNil
               THEN Fatal(e) /\ UNCHANGED logs
               ELSE Goto("GetLogsApply") /\ logs' = Reader("Plans.Logs", r.Plan.ID)
     ELSE Goto("GetLogsApply") /\ UNCHANGED <<calls, err, logs>>
  /\ UNCHANGED <<inVars, listVars, refVars, buffer, l, reads>>

\* GetLogs' second if: open the apply's log stream for the apply tag; then
\* ParseLogs starts with its empty text and its zeroed buffer.
GetLogsApply ==
  /\ pc = "GetLogsApply"
  /\ IF IsApply(Operation)
     THEN \E e \in Answers("Applies.Logs") :
            /\ Call("Applies.Logs", r.Apply.ID, e)
            /\ err' = e
            /\ IF e # ErrNil
               THEN Fatal(e) /\ UNCHANGED <<logs, buffer>>
               ELSE /\ Goto("ParseLogs")
                    /\ logs' = Reader("Applies.Logs", r.Apply.ID)
                    /\ buffer' = [i \in 1..BufSize |-> 0]
     ELSE /\ Goto("ParseLogs")
          /\ buffer' = [i \in 1..BufSize |-> 0]
          /\ UNCHANGED <<calls, err, logs>>
  /\ UNCHANGED <<inVars, listVars, refVars, l, reads>>

\* The number of bytes the reads made so far delivered.
RECURSIVE Delivered(_)
Delivered(rs) ==
  IF rs = <<>> THEN 0 ELSE rs[Len(rs)].n + Delivered(SubSeq(rs, 1, Len(rs) - 1))

\* logs.Read(buffer) delivering n bytes: they overwrite the first n bytes of
\* the buffer, the rest keeps what earlier reads left there.
ReadInto(buf, stream, pos, n) ==
  [i \in 1..Len(buf) |-> IF i <= n THEN StreamByte(stream, pos + i) ELSE buf[i]]

\* Appending the whole buffer, whatever the read delivered.
AppendWholeBuffer(text, buf, n) == text \o buf

\* l = fmt.Sprintf("%s%s", l, buffer[:n])
AppendChunk(text, buf, n) == text \o SubSeq(buf, 1, n)

\* ParseLogs' exit from the loop: if err == io.EOF { break }
LoopEnds(e) == e = EOF

\* The Logs struct ParseLogs serializes.
LogsPayload(runID, text) == MarshalValue([ID |-> runID, Logs |-> text])

\* One round of ParseLogs' loop: a Read, the append, the test for io.EOF.
\* A Read on the nil reader of an unopened stream panics.
ParseLogs ==
  /\ pc = "ParseLogs"
  /\ IF logs = Nil
     THEN Panic /\ UNCHANGED <<buffer, l, reads, err>>
     ELSE /\ Len(reads) < MaxReads
          /\ \E n \in ChunkSizes, e \in ReadErrors :
               /\ buffer' = ReadInto(buffer, logs.stream, Delivered(reads), n)
               /\ l' = AppendChunk(l, buffer', n)
               /\ reads' = Append(reads, [n |-> n, err |-> e])
               /\ err' = e
               /\ IF LoopEnds(e)
                  THEN Exit0(LogsPayload(flags.planID, l'),
                             IF command = "direct" THEN <<>>
                             ELSE <<LogsPayload(flags.planID, l')>>, <<>>)
                  ELSE Goto("ParseLogs")
  /\ UNCHANGED <<inVars, calls, listVars, refVars, logs>>

\* Any other command or subCommand: flag.Usage().
Usage ==
  /\ pc = "Usage"
  /\ Exit0(Nil, <<"usage">>, <<>>)
  /\ UNCHANGED <<inVars, calls, listVars, refVars, err, logVars>>

Next ==
  \/ ListWorkspaces
  \/ ListOAuthClients
  \/ ListRuns
  \/ ListRunsPage
  \/ AssignVariableSet
  \/ AssignVariableSetScan
  \/ AssignVariableSetApply
  \/ ReadVariableSet
  \/ ReadVariableSetMarshal
  \/ CreateWorkspace
  \/ GetWorkspace
  \/ GetVCSProviderFromOAuthClient
  \/ UpdateWorkspace
  \/ UpdateWorkspaceUpdate
  \/ addTerraformVariable
  \/ addTerraformVariableCreate
  \/ RunPlan
  \/ RunPlanCreate
  \/ DiscardRun
  \/ CancelRun
  \/ ApplyRun
  \/ GetPlan
  \/ GetPlanOutput
  \/ GetApply
  \/ GetApplyRead
  \/ GetLogs
  \/ GetLogsPlan
  \/ GetLogsApply
  \/ ParseLogs
  \/ Usage

Spec == Init /\ [][Next]_vars

\* ================================================================ claims
\* The page numbers of a listing in link order from page p.
RECURSIVE ChainFrom(_, _)
ChainFrom(lst, p) ==
  IF p \notin DOMAIN lst THEN <<>> ELSE <<p>> \o ChainFrom(lst, lst[p].NextPage)

\* The items of the pages of a chain, page after page.
RECURSIVE ItemsAlong(_, _)
ItemsAlong(lst, chain) ==
  IF chain = <<>> THEN <<>>
  ELSE lst[chain[1]].Items \o ItemsAlong(lst, SubSeq(chain, 2, Len(chain)))

\* The calls made to one API, in order.
CallsTo(api) == SelectSeq(calls, LAMBDA c : c.api = api)

\* The page numbers requested from one listing API, in order.
PagesRequested(api) ==
  LET cs == CallsTo(api)
  IN [i \in 1..Len(cs) |-> IF api = "Runs.List" THEN cs[i].arg.page ELSE cs[i].arg]

\* Some remote call was answered with an error.
SomeCallFailed == \E i \in 1..Len(calls) : calls[i].err # ErrNil

\* The listing API of the invocation's listing operation.
ListingAPI ==
  CASE pc = "done" /\ subCommand = "list" /\ command = "workspace" -> "Workspaces.List"
    [] pc = "done" /\ subCommand = "list" /\ command = "oauth_client" -> "OAuthClients.List"
    [] pc = "done" /\ subCommand = "list" /\ command = "run" -> "Runs.List"
    [] OTHER -> ""

\* The items a finished listing operation returned.
ListingResult ==
  CASE command = "workspace" -> workspaces
    [] command = "oauth_client" -> clients
    [] OTHER -> runs

\* What the operation makes of the items of the pages, in order.
ExpectedResult ==
  LET items == ItemsAlong(listing, ChainFrom(listing, 1))
  IN CASE command = "workspace" -> [i \in 1..Len(items) |-> items[i].Name]
       [] command = "oauth_client" ->
            [i \in 1..Len(items) |->
               [Name |-> IF items[i].Name = Nil THEN Nil ELSE items[i].Name.val,
                Id |-> items[i].ID]]
       [] OTHER -> [i \in 1..Len(items) |->
                      [ID |-> items[i].ID, Status |-> items[i].Status,
                       CreatedAt |-> items[i].CreatedAt]]

\* The pages were requested in link order from page 1 to the page naming 0,
\* and the result is their items in order, each once.
ListedCompletely ==
  /\ exit = "ok"
  /\ PagesRequested(ListingAPI) = ChainFrom(listing, 1)
  /\ ListingResult = ExpectedResult

\* C1: a listing operation (ListRuns, ListWorkspaces, ListOAuthClients) whose
\* remote calls all succeed requests page 1, then the page each answer names
\* as next, stops at the answer naming page 0, and returns the items of
\* those pages in order, each once; an empty single page gives an empty
\* result and no error.
PaginationComplete ==
  (ListingAPI # "" /\ ~SomeCallFailed) => ListedCompletely

\* The same for every listing in which each OAuth client has a name: there
\* the three operations do list completely.
PaginationCompleteNamed ==
  (/\ ListingAPI # ""
   /\ ~SomeCallFailed
   /\ \A p \in DOMAIN listing : \A i \in 1..Len(listing[p].Items) :
        command = "oauth_client" => listing[p].Items[i].Name # Nil)
  => ListedCompletely

\* A two-page listing of runs was listed with no failure.
PaginationWitness ==
  /\ ListingAPI = "Runs.List"
  /\ exit = "ok"
  /\ Len(ChainFrom(listing, 1)) = 2
  /\ Len(runs) = 3

\* The calls the latest scan of the variable sets made: the List calls at
\* the end of calls.
RECURSIVE ScanCalls(_)
ScanCalls(cs) ==
  IF cs = <<>> \/ cs[Len(cs)].api # "VariableSets.List" THEN <<>>
  ELSE Append(ScanCalls(SubSeq(cs, 1, Len(cs) - 1)), cs[Len(cs)].arg)

\* GetVarialbeSetByName has just returned to its caller.
ScanReturned == pc \in {"AssignVariableSetApply", "ReadVariableSetMarshal"}

\* The places <<j, i>> (j-th page of the chain, i-th item) of the items
\* whose name equals the query.
MatchPlaces ==
  LET chain == ChainFrom(listing, 1)
  IN {x \in (1..Len(chain)) \X (1..MaxItems + 1) :
        /\ x[2] <= Len(listing[chain[x[1]]].Items)
        /\ listing[chain[x[1]]].Items[x[2]].Name = flags.variableSet}

\* The first of them in page order, then item order.
FirstPlace ==
  CHOOSE x \in MatchPlaces :
    \A y \in MatchPlaces : x[1] < y[1] \/ (x[1] = y[1] /\ x[2] <= y[2])

\* C2: GetVarialbeSetByName returns the first variable set, in page order
\* then item order, whose name equals the query exactly, having requested
\* the pages up to that one and none after it; with no such item it returns
\* the Not found error, having requested every page up to the one naming 0.
ExactMatchScan ==
  ScanReturned =>
    LET chain == ChainFrom(listing, 1) IN
    IF MatchPlaces # {}
    THEN /\ vs = listing[chain[FirstPlace[1]]].Items[FirstPlace[2]]
         /\ err = ErrNil
         /\ ScanCalls(calls) = SubSeq(chain, 1, FirstPlace[1])
    ELSE /\ vs = Nil
         /\ err = ErrNotFound
         /\ ScanCalls(calls) = chain

\* The scan returned the second of three sets, on the second page: the
\* first set's name differs from the query only in case, the third's equals it.
ExactMatchWitness ==
  /\ ScanReturned
  /\ Len(ChainFrom(listing, 1)) >= 2
  /\ Cardinality(MatchPlaces) = 2
  /\ FirstPlace[1] = 2
  /\ Len(listing[1].Items) = 1
  /\ vs # Nil

\* The invocation is a call of GetLogs.
IsGetLogs == subCommand \in {"apply_logs", "plan_logs", "GetLogs"}

\* The first n bytes of a log stream.
StreamPrefix(stream, n) == [i \in 1..n |-> StreamByte(stream, i)]

\* C3: at every point of ParseLogs' loop the text is exactly the bytes the
\* reads delivered, in read order, so its length is the sum of the reads'
\* sizes and no byte an earlier, longer read left in the buffer is in it;
\* the payload returned at end-of-data carries that text.
LogConcatenation ==
  (IsGetLogs /\ logs # Nil) =>
    /\ l = StreamPrefix(logs.stream, Delivered(reads))
    /\ Len(l) = Delivered(reads)
    /\ (exit = "ok" => ret = LogsPayload(flags.planID, StreamPrefix(logs.stream, Delivered(reads))))

\* Reads of 1000, 1000 and 237 bytes, the last with end-of-data, gave a
\* payload whose text has 2237 bytes.
LogConcatenationWitness ==
  /\ IsGetLogs
  /\ exit = "ok"
  /\ Len(reads) = 3
  /\ reads[1].n = 1000 /\ reads[2].n = 1000 /\ reads[3].n = 237
  /\ Len(ret.fields.Logs) = 2237

\* C4: GetLogs with a tag that is neither the plan nor the apply tag, on a
\* run that resolves, opens no stream and returns {ID: runID, Logs: ""}
\* normally.
UnknownLogVariant ==
  (/\ IsGetLogs
   /\ Operation \notin {"plan", "apply"}
   /\ pc = "done"
   /\ ~SomeCallFailed)
  => /\ exit = "ok"
     /\ ret = LogsPayload(flags.planID, <<>>)
     /\ Len(calls) = 1

\* The stream-opening calls made so far.
StreamCalls == SelectSeq(calls, LAMBDA c : c.api \in {"Plans.Logs", "Applies.Logs"})

\* The stream and sub-resource a tag selects.
SelectedStream(tag) ==
  IF tag = "apply" THEN [api |-> "Applies.Logs", id |-> <<"apply", flags.planID>>]
  ELSE [api |-> "Plans.Logs", id |-> <<"plan", flags.planID>>]

\* The tag the command stands for: apply_logs the apply phase, plan_logs the
\* plan phase, a direct call the tag it gives.
IntendedTag ==
  CASE subCommand = "apply_logs" -> "apply"
    [] subCommand = "plan_logs" -> "plan"
    [] OTHER -> flags.operation

\* C5: GetLogs resolves the run first, then opens exactly one stream, the
\* Apply's for the apply tag (apply_logs) and the Plan's for the plan tag
\* (plan_logs), never the other one; the text returned is what was drained
\* from that stream.
LogSourceSelection ==
  (IsGetLogs /\ IntendedTag \in {"plan", "apply"}) =>
    /\ calls # <<>> => calls[1].api = "Runs.Read" /\ calls[1].arg = flags.planID
    /\ Len(StreamCalls) <= 1
    /\ \A i \in 1..Len(StreamCalls) :
         /\ StreamCalls[i].api = SelectedStream(IntendedTag).api
         /\ StreamCalls[i].arg = SelectedStream(IntendedTag).id
    /\ pc = "ParseLogs" => Len(StreamCalls) = 1
    /\ logs # Nil => logs = Reader(SelectedStream(IntendedTag).api, SelectedStream(IntendedTag).id)
    /\ exit = "ok" =>
         /\ Len(StreamCalls) = 1
         /\ ret = LogsPayload(flags.planID,
                              StreamPrefix(SelectedStream(IntendedTag).api, Delivered(reads)))

\* apply_logs returned a text of the apply's log.
LogSourceWitness ==
  /\ subCommand = "apply_logs"
  /\ exit = "ok"
  /\ Len(ret.fields.Logs) = 237
  /\ ret.fields.Logs[1] = StreamByte("Applies.Logs", 1)

\* The invocation is run apply, run discard or run cancel.
IsTransition == command = "run" /\ subCommand \in {"apply", "discard", "cancel"}

\* The API and the confirmation of a transition.
TransitionOf(sub) ==
  CASE sub = "apply" -> [api |-> "Runs.Apply", msg |-> "applied"]
    [] sub = "discard" -> [api |-> "Runs.Discard", msg |-> "discarded"]
    [] sub = "cancel" -> [api |-> "Runs.Cancel", msg |-> "cancelled"]

\* C6: ApplyRun, DiscardRun and CancelRun issue exactly one request, the
\* transition of the given run, with no read of the run before it; when the
\* service rejects it the operation returns that error, no further call is
\* made and main prints no confirmation; when it is accepted the operation
\* returns no error.
RunTransitionPropagation ==
  IsTransition =>
    /\ pc # "done" => calls = <<>>
    /\ pc = "done" =>
         /\ Len(calls) = 1
         /\ calls[1].api = TransitionOf(subCommand).api
         /\ calls[1].arg = flags.planID
         /\ err = calls[1].err
         /\ calls[1].err # ErrNil =>
              exit = "fatal" /\ fatal = calls[1].err /\ logged = <<>>
         /\ calls[1].err = ErrNil =>
              exit = "ok" /\ logged = <<[run |-> flags.planID, msg |-> TransitionOf(subCommand).msg]>>

\* The service rejected an apply: the process ended on that error.
RunTransitionWitness ==
  /\ command = "run" /\ subCommand = "apply"
  /\ pc = "done"
  /\ calls[1].err = ErrRemote("Runs.Apply")
  /\ exit = "fatal"

\* The association requests sent so far.
AssociationCalls == CallsTo("VariableSets.ApplyToWorkspaces")

\* C7: an apply-to-workspaces request is sent only after the workspace
\* lookup and the name scan have both succeeded, with the found set's ID
\* and exactly the one workspace; when the lookup fails or the scan finds
\* nothing the operation fails and no such request is sent.
AssignmentOrdering ==
  /\ \A i \in 1..Len(calls) :
       calls[i].api = "VariableSets.ApplyToWorkspaces" =>
         /\ i > 2
         /\ calls[1].api = "Workspaces.Read" /\ calls[1].err = ErrNil
         /\ \A j \in 2..(i - 1) : calls[j].api = "VariableSets.List" /\ calls[j].err = ErrNil
         /\ MatchPlaces # {}
         /\ calls[i].arg.variableSetID =
              listing[ChainFrom(listing, 1)[FirstPlace[1]]].Items[FirstPlace[2]].ID
         /\ calls[i].arg.Workspaces = <<WorkspaceOf(flags.workspaceName)>>
  /\ Len(AssociationCalls) <= 1
  /\ (/\ subCommand = "assign_variable_set"
      /\ pc = "done"
      /\ \/ calls[1].err # ErrNil
         \/ (MatchPlaces = {} /\ ~SomeCallFailed))
     => exit = "fatal" /\ AssociationCalls = <<>>

\* An association request went out for a set found on a second page.
AssignmentWitness ==
  /\ Len(AssociationCalls) = 1
  /\ Len(calls) = 4
  /\ AssociationCalls[1].arg.Workspaces[1].Name = "infra-dev"

\* The variable creation requests sent so far.
CreationCalls == CallsTo("Variables.Create")

\* C8: a creation request of category env carries HCL = false whatever the
\* is_hcl flag; a request with HCL = true has category terraform.
VariableCategorization ==
  \A i \in 1..Len(CreationCalls) :
    /\ CreationCalls[i].arg.options.Category = "env" => CreationCalls[i].arg.options.HCL = FALSE
    /\ CreationCalls[i].arg.options.HCL = TRUE => CreationCalls[i].arg.options.Category = "terraform"
    /\ subCommand = "add_env_var" => CreationCalls[i].arg.options.Category = "env"
    /\ subCommand = "add_tfe_var" => CreationCalls[i].arg.options = [HCL |-> flags.isHCL, Category |-> "terraform"]

\* add_env_var was given -is_hcl and its creation request went out.
VariableCategorizationWitness ==
  /\ subCommand = "add_env_var"
  /\ flags.isHCL = TRUE
  /\ Len(CreationCalls) = 1

\* The scan of the variable sets has ended with Not found.
ScanNotFound ==
  /\ calls # <<>>
  /\ calls[Len(calls)].api = "VariableSets.List"
  /\ calls[Len(calls)].err = ErrNil
  /\ vs = Nil
  /\ pc \in {"AssignVariableSetApply", "ReadVariableSetMarshal", "done"}

\* C9: once a remote call or a named lookup has returned an error the
\* operation makes no further call, uses no result of the failed call and
\* emits no payload: it ends with that error.
AbortOnFirstError ==
  /\ \A i \in 1..Len(calls) : calls[i].err # ErrNil => i = Len(calls)
  /\ (pc = "done" /\ SomeCallFailed) =>
       /\ exit = "fatal" /\ fatal = calls[Len(calls)].err
       /\ ret = Nil /\ stdout = <<>>
  /\ (pc = "done" /\ ScanNotFound) =>
       /\ exit = "fatal" /\ fatal = ErrNotFound
       /\ ret = Nil /\ stdout = <<>>

\* The three places of C9 one by one.
AbortInAddTerraformVariable ==
  (pc = "done" /\ subCommand \in {"add_tfe_var", "add_env_var"} /\ SomeCallFailed)
  => exit = "fatal"

AbortInRunPlan ==
  (pc = "done" /\ subCommand = "plan" /\ SomeCallFailed) => exit = "fatal"

AbortInReadVariableSet ==
  (pc = "done" /\ subCommand = "ReadVariableSet" /\ ScanNotFound)
  => exit = "fatal" /\ ret = Nil

\* C10: a read that signals end-of-data or fails is the last read of the
\* stream: end-of-data ends the loop with the payload, any other error is
\* fatal at once.
LogDrainTermination ==
  \A i \in 1..Len(reads) :
    reads[i].err # ErrNil =>
      /\ i = Len(reads)
      /\ reads[i].err = EOF => exit = "ok" /\ ret # Nil
      /\ (reads[i].err # EOF /\ pc = "done") => exit = "fatal"

\* The part of C10 about end-of-data alone.
StopsAtEndOfData ==
  \A i \in 1..Len(reads) :
    reads[i].err = EOF => i = Len(reads) /\ exit = "ok" /\ pc = "done"

====
